---- MODULE Spec2Model ----
(***************************************************************************)
(* Model of the options-selling backtest of luluwangzi/option_trading:     *)
(* the per-symbol position state machine (trading_engine.py), the daily    *)
(* driver loop (run_backtest / execute_strategy), the bear-market          *)
(* predicate and option selection (data_service.py) and the trading        *)
(* calendar (config.py).                                                   *)
(*                                                                         *)
(* Money is in whole dollars, deltas and IV ranks in hundredths.  The      *)
(* input values are chosen so that the floating-point products of the      *)
(* source (x * 1.10, premium * (1 - 0.7)) compare like the exact ones.     *)
(***************************************************************************)
EXTENDS Integers, Sequences, FiniteSets, TLC

(***************************************************************************)
(* Bounds of the model.                                                    *)
(***************************************************************************)
\* number of business days a run iterates over at most
MaxDays == 4

(***************************************************************************)
(* config.py                                                               *)
(***************************************************************************)
\* STOCK_CONFIGS.keys(), in insertion order
STOCK_CONFIGS == <<"NVDA", "GOOGL", "TSLA", "QQQ">>

Symbols == {STOCK_CONFIGS[i] : i \in 1..Len(STOCK_CONFIGS)}

put_delta_range(symbol) ==
    IF symbol \in {"NVDA", "TSLA"} THEN <<15, 20>> ELSE <<20, 25>>

call_delta_range(symbol) == <<15, 20>>

\* StrategyConfig defaults
dte_range == <<30, 45>>
roll_dte_threshold == 10
\* profit_take_percent = 0.7, as tenths
profit_take_percent == 7
\* iv_rank_threshold = 0.8, as hundredths
iv_rank_threshold == 80
vix_threshold == 35
bear_market_put_delta == <<10, 15>>

\* TRADING_CALENDAR, each "%Y-%m-%d" string as the number yyyymmdd
TRADING_CALENDAR ==
    {20240102, 20240201, 20240301, 20240401, 20240501, 20240603,
     20240701, 20240801, 20240903, 20241001, 20241101, 20241202}

(***************************************************************************)
(* Dates.  A date is the number of days since Monday 2024-01-01.           *)
(***************************************************************************)
MonthLengths(year) ==
    <<31, IF year % 4 = 0 THEN 29 ELSE 28, 31, 30, 31, 30, 31, 31, 30, 31, 30, 31>>

RECURSIVE YMDFrom(_, _, _)
\* <<year, month, day>> of the date n days after the first of `month` of `year`
YMDFrom(year, month, n) ==
    IF n >= MonthLengths(year)[month]
    THEN IF month = 12
         THEN YMDFrom(year + 1, 1, n - MonthLengths(year)[month])
         ELSE YMDFrom(year, month + 1, n - MonthLengths(year)[month])
    ELSE <<year, month, n + 1>>

\* date.strftime("%Y-%m-%d"), as the number yyyymmdd
strftime(date) ==
    LET ymd == YMDFrom(2024, 1, date)
    IN  ymd[1] * 10000 + ymd[2] * 100 + ymd[3]

\* Monday = 0 ... Sunday = 6
weekday(date) == date % 7

\* a check of the day of the month in place of the calendar
first_days_of_month(date) == strftime(date) % 100 <= 3

is_first_trading_day(date) == strftime(date) \in TRADING_CALENDAR

RECURSIVE NextBusinessDay(_)
\* the first Monday-to-Friday date on or after `date` (frequency 'B')
NextBusinessDay(date) ==
    IF weekday(date) < 5 THEN date ELSE NextBusinessDay(date + 1)

\* start dates a run is given: 2024-01-02 (a calendar day, Tuesday) and
\* 2024-01-31 (the day before the calendar day 2024-02-01)
StartDates == {1, 30}

\* the n-th business day on or after date
RECURSIVE NthBusinessDay(_, _)
NthBusinessDay(date, n) ==
    IF n <= 1 THEN NextBusinessDay(date)
    ELSE NthBusinessDay(NextBusinessDay(date) + 1, n - 1)

\* the ends of the ranges run from a start: the day before it, the start
\* itself, and the last of MaxDays business days
EndDates(start) == {start - 1, start, NthBusinessDay(start, MaxDays)}

\* a range that leaves its end out
InDateRangeOpen(date, end) == date < end

\* pd.date_range(start, end, freq='B') includes its end
InDateRange(date, end) == date <= end

(***************************************************************************)
(* data_service.py                                                         *)
(***************************************************************************)
\* datetime.now(): the wall-clock date of the run (2024-01-11), which the
\* source reads whatever the simulated day is; its time of day is after
\* midnight
now == 10

\* (exp_date - datetime.now()).days: whole days, rounded down
days_until(expiration) == expiration - now - 1

\* a field a provider record does not carry (dict.get gives None)
NoField == -1

\* rows of an option chain: strike, bid, delta, impliedVolatility, iv_rank
PutLowDelta  == [strike |-> 300, bid |-> 2, delta |-> 12, impliedVolatility |-> 40, iv_rank |-> 50]
PutMidDelta  == [strike |-> 300, bid |-> 3, delta |-> 20, impliedVolatility |-> 40, iv_rank |-> 50]
PutHighIV    == [strike |-> 300, bid |-> 3, delta |-> 20, impliedVolatility |-> 40, iv_rank |-> 80]
PutNoIVRank  == [strike |-> 300, bid |-> 3, delta |-> 20, impliedVolatility |-> 40, iv_rank |-> NoField]
CallRow      == [strike |-> 330, bid |-> 2, delta |-> 18, impliedVolatility |-> 40, iv_rank |-> 50]

\* the expirations the provider lists (ticker.options), each with the rows of
\* its chain; one in the DTE window, one too near
InWindow == now + 31
TooNear  == now + 20

Expiry(exp, puts, calls) == [expiration |-> exp, puts |-> puts, calls |-> calls]

\* the option data the provider can answer with for one symbol on one day
OptionChains ==
    { <<>>,
      <<Expiry(InWindow, <<PutLowDelta>>, <<>>)>>,
      <<Expiry(InWindow, <<PutLowDelta, PutMidDelta>>, <<CallRow>>)>>,
      <<Expiry(InWindow, <<PutHighIV>>, <<CallRow>>)>>,
      <<Expiry(InWindow, <<PutNoIVRank>>, <<>>)>>,
      <<Expiry(TooNear, <<PutMidDelta>>, <<CallRow>>)>> }

NoCandidate == <<>>

\* chain[(chain['impliedVolatility'] > 0) & chain['delta'].between(lo, hi)]
FilterRows(rows, delta_range) ==
    SelectSeq(rows, LAMBDA r : r.impliedVolatility > 0
                               /\ delta_range[1] <= r.delta
                               /\ r.delta <= delta_range[2])

RECURSIVE IdxMaxBid(_, _, _)
\* filtered.loc[filtered['bid'].idxmax()]: the first row of the highest bid
IdxMaxBid(rows, i, best) ==
    IF i > Len(rows) THEN best
    ELSE IdxMaxBid(rows, i + 1, IF rows[i].bid > best.bid THEN rows[i] ELSE best)

Abs(x) == IF x < 0 THEN -x ELSE x

\* score = abs(delta - delta_mid) - bid, times 200 to stay in the integers
Score(row, delta_range) ==
    Abs(2 * row.delta - (delta_range[1] + delta_range[2])) - 200 * row.bid

RECURSIVE FindOptimal(_, _, _, _, _, _, _)
FindOptimal(options, i, option_type, delta_range, dte_rng, optimal, best_score) ==
    IF i > Len(options) THEN optimal
    ELSE
      LET exp      == options[i]
          dte      == days_until(exp.expiration)
          chain    == IF option_type = "put" THEN exp.puts ELSE exp.calls
          filtered == FilterRows(chain, delta_range)
      IN  IF dte_rng[1] <= dte /\ dte <= dte_rng[2] /\ Len(filtered) > 0
          THEN LET best == IdxMaxBid(filtered, 2, filtered[1])
                   score == Score(best, delta_range)
               IN  IF Len(optimal) = 0 \/ score < best_score
                   THEN FindOptimal(options, i + 1, option_type, delta_range, dte_rng,
                                    << [strike |-> best.strike, bid |-> best.bid,
                                        delta |-> best.delta, iv_rank |-> best.iv_rank,
                                        expiration |-> exp.expiration, dte |-> dte,
                                        optionType |-> option_type] >>,
                                    score)
                   ELSE FindOptimal(options, i + 1, option_type, delta_range, dte_rng,
                                    optimal, best_score)
          ELSE FindOptimal(options, i + 1, option_type, delta_range, dte_rng,
                           optimal, best_score)

\* find_optimal_option: <<>> for None, <<contract>> otherwise
find_optimal_option(options, option_type, delta_range, dte_rng) ==
    FindOptimal(options, 1, option_type, delta_range, dte_rng, NoCandidate, 0)

\* moving_averages without a '200_day' entry
NoAverage == 0

\* the VIX at 35 counted as a bear market
BearMarketAtThreshold(md) ==
    LET vix_condition == \E s \in DOMAIN md : md[s].vix >= 35
        qqq_condition == IF "QQQ" \in DOMAIN md /\ md["QQQ"].ma200 # NoAverage
                         THEN md["QQQ"].price < md["QQQ"].ma200
                         ELSE FALSE
    IN  vix_condition \/ qqq_condition

is_bear_market_conditions(md) ==
    LET vix_condition == \E s \in DOMAIN md : md[s].vix > 35
        qqq_condition == IF "QQQ" \in DOMAIN md /\ md["QQQ"].ma200 # NoAverage
                         THEN md["QQQ"].price < md["QQQ"].ma200
                         ELSE FALSE
    IN  vix_condition \/ qqq_condition

(***************************************************************************)
(* models.py                                                               *)
(***************************************************************************)
PositionState == {"CASH", "PUT_SOLD", "STOCK_OWNED", "CALL_SOLD"}

\* Optional[OptionContract]: <<>> is None, <<contract>> a contract
NoOption == <<>>

PortfolioPosition(symbol, state, quantity, average_cost) ==
    [symbol |-> symbol, state |-> state, quantity |-> quantity,
     average_cost |-> average_cost, current_option |-> NoOption,
     open_trades |-> <<>>]

Trade(symbol, option_type, action, price, strike, expiration, premium, delta, iv_rank) ==
    [symbol |-> symbol, option_type |-> option_type, action |-> action,
     quantity |-> 1, price |-> price, strike |-> strike,
     expiration |-> expiration, premium |-> premium, delta |-> delta,
     iv_rank |-> iv_rank]

(***************************************************************************)
(* trading_engine.py: TradingEngine                                        *)
(***************************************************************************)
\* initial_capital of TradingEngine and run_comprehensive_backtest
initial_capital == 100000

\* the standard option contract size (shares per contract)
ContractSize == 100

\* positions for the stocks only, none for the index
InitialPositionsWithoutIndex ==
    [s \in Symbols \ {"QQQ"} |-> PortfolioPosition(s, "CASH", 0, 0)]

\* __init__ / _initialize_portfolio
InitialPositions ==
    [s \in Symbols |-> PortfolioPosition(s, "CASH", 0, 0)]

\* the symbols named at line 150, skipped for new puts in a bear market
BearMarketGuardSymbols == {"NVDA", "TSLA"}

\* the bear-market band for every symbol, none skipped
PutDeltaRangeNoSkip(symbol, bear_market) ==
    IF bear_market THEN <<bear_market_put_delta>> ELSE <<put_delta_range(symbol)>>

\* lines 148-155: the delta band a put is searched in; <<>> when the sale
\* is skipped (return None)
PutDeltaRange(symbol, bear_market) ==
    IF bear_market /\ symbol \in BearMarketGuardSymbols
    THEN IF symbol \in {"QQQ", "GOOGL"}
         THEN <<bear_market_put_delta>>
         ELSE <<>>
    ELSE <<put_delta_range(symbol)>>

\* option_data.get('iv_rank', 1.0) < STRATEGY_CONFIG.iv_rank_threshold
IVRankAccepted(option_data) ==
    (IF option_data.iv_rank = NoField THEN 100 ELSE option_data.iv_rank)
        < iv_rank_threshold

\* the premium of one share, not of the contract
OpenTradePerShare(symbol, option_type, option_data) ==
    Trade(symbol, option_type, "open", option_data.bid, option_data.strike,
          option_data.expiration, option_data.bid, option_data.delta,
          option_data.iv_rank)

\* the Trade built from a provider record
OpenTrade(symbol, option_type, option_data) ==
    Trade(symbol, option_type, "open", option_data.bid, option_data.strike,
          option_data.expiration, option_data.bid * 100, option_data.delta,
          option_data.iv_rank)

\* a put at the money sold whatever the provider offers
SellPutUnconditionally(symbol, md, bear_market, options) ==
    << Trade(symbol, "PUT", "open", 1, md.price, InWindow, 100, NoField, NoField) >>

\* _sell_cash_secured_put: <<>> for None, <<trade>> otherwise; the caller
\* sees cash raised by trade.premium
sell_cash_secured_put(symbol, md, bear_market, options) ==
    LET band == PutDeltaRange(symbol, bear_market)
    IN  IF band = <<>> THEN <<>>
        ELSE LET found == find_optimal_option(options, "put", band[1], dte_range)
             IN  IF found # NoCandidate /\ IVRankAccepted(found[1])
                 THEN << OpenTrade(symbol, "PUT", found[1]) >>
                 ELSE <<>>

\* the strike measured against the cost basis alone
StrikeAboveCostOnly(strike, price, cost_basis) ==
    10 * strike >= 11 * cost_basis

\* option_data['strike'] >= max(price * 1.10, cost_basis * 1.10), in tenths
StrikeHighEnough(strike, price, cost_basis) ==
    /\ 10 * strike >= 11 * price
    /\ 10 * strike >= 11 * cost_basis

\* _sell_covered_call
sell_covered_call(symbol, cost_basis, md, options) ==
    LET found == find_optimal_option(options, "call", call_delta_range(symbol), dte_range)
    IN  IF found # NoCandidate /\ StrikeHighEnough(found[1].strike, md.price, cost_basis)
        THEN << OpenTrade(symbol, "CALL", found[1]) >>
        ELSE <<>>

\* trade.delta or 0.0
DeltaOrZero(delta) == IF delta = NoField THEN 0 ELSE delta

\* trade.iv_rank or 0.5
IVRankOrHalf(iv_rank) == IF iv_rank = NoField \/ iv_rank = 0 THEN 50 ELSE iv_rank

\* _create_option_contract
create_option_contract(trade) ==
    [symbol |-> trade.symbol, option_type |-> trade.option_type,
     strike |-> trade.strike, expiration |-> trade.expiration,
     premium |-> trade.premium, delta |-> DeltaOrZero(trade.delta),
     iv_rank |-> IVRankOrHalf(trade.iv_rank),
     dte |-> days_until(trade.expiration)]

\* the profit-take threshold excluded
ProfitTakeStrict(current_premium, initial_premium) ==
    10 * current_premium < initial_premium * (10 - profit_take_percent)

\* current_premium <= initial_premium * (1 - profit_take_percent), in tenths
ProfitTakeCondition(current_premium, initial_premium) ==
    10 * current_premium <= initial_premium * (10 - profit_take_percent)

\* position.current_option.dte <= STRATEGY_CONFIG.roll_dte_threshold
RollCondition(option) == option.dte <= roll_dte_threshold

\* the strike itself excluded
PutExerciseStrict(price, strike) == price < strike

\* market_data.price <= position.current_option.strike
PutExerciseCondition(price, strike) == price <= strike

\* market_data.price > position.current_option.strike * 1.1, in tenths
CallRollCondition(price, strike) == 10 * price > 11 * strike

\* market_data.price >= position.current_option.strike
CallExerciseCondition(price, strike) == price >= strike

(***************************************************************************)
(* The helpers trading_engine.py calls but does not define (line 252).     *)
(* They are modelled from the specification: a buy-back pays the current   *)
(* premium, a roll closes the contract and opens a replacement in the same *)
(* delta band and DTE window, and an exercise records the trade; the       *)
(* reference implementation moves no cash on exercise (spec section 3).    *)
(***************************************************************************)
\* _get_current_option_premium: the day's market premium of the contract
get_current_option_premium(option, quote) == quote

\* _buy_back_option: the close trade; the caller sees cash lowered by its premium
buy_back_option(option, price, quote) ==
    Trade(option.symbol, option.option_type, "close", price, option.strike,
          option.expiration, quote, NoField, NoField)

\* _roll_option: <<>> when no replacement is found, else the roll trade that
\* carries the replacement contract
roll_option(option, md, bear_market, options) ==
    LET band  == IF option.option_type = "PUT"
                 THEN put_delta_range(option.symbol)
                 ELSE call_delta_range(option.symbol)
        kind  == IF option.option_type = "PUT" THEN "put" ELSE "call"
        found == find_optimal_option(options, kind, band, dte_range)
    IN  IF found = NoCandidate THEN <<>>
        ELSE << Trade(option.symbol, option.option_type, "roll", found[1].bid,
                      found[1].strike, found[1].expiration, found[1].bid * 100,
                      found[1].delta, found[1].iv_rank) >>

\* _exercise_option: the exercise trade of a put
exercise_option(option, price) ==
    Trade(option.symbol, option.option_type, "exercise", price, option.strike,
          option.expiration, 0, NoField, NoField)

\* _exercise_call_option: the exercise trade of a call
exercise_call_option(option, price) ==
    Trade(option.symbol, option.option_type, "exercise", price, option.strike,
          option.expiration, 0, NoField, NoField)

(***************************************************************************)
(* _process_stock_position: the position, the cash and the trades after    *)
(* one symbol's evaluation.  `options` is the provider's option data for   *)
(* the symbol and `quote` the market premium of its open contract.         *)
(***************************************************************************)
Outcome(position, cash, trades) ==
    [position |-> position, cash |-> cash, trades |-> trades]

\* lines 66-67 and 107-108: the new state, with the contract of the trade
AttachOption(position, state, trade) ==
    [position EXCEPT !.state = state,
                     !.current_option = <<create_option_contract(trade)>>]

\* lines 89 and 126: the contract of the roll trade takes the old one's place
ReplaceOption(position, roll_trade) ==
    [position EXCEPT !.current_option = <<create_option_contract(roll_trade)>>]

\* the contract left on the position
ClosePositionKeepsOption(position, state) ==
    [position EXCEPT !.state = state]

\* lines 80-81 and 118-119: the state after a buy-back, without a contract
ClosePosition(position, state) ==
    [position EXCEPT !.state = state, !.current_option = NoOption]

\* the put assigned without the shares being booked
AssignPutWithoutShares(position, option) ==
    [position EXCEPT !.state = "STOCK_OWNED",
                     !.average_cost = option.strike,
                     !.current_option = NoOption]

\* lines 96-99: the put is assigned
AssignPut(position, option) ==
    [position EXCEPT !.state = "STOCK_OWNED",
                     !.quantity = ContractSize,
                     !.average_cost = option.strike,
                     !.current_option = NoOption]

\* lines 133-136: the call is assigned
AssignCall(position) ==
    [position EXCEPT !.state = "CASH",
                     !.quantity = 0,
                     !.average_cost = 0,
                     !.current_option = NoOption]

\* a put sold only while the cash has not passed the initial capital
ProcessCashOnFreshCapital(symbol, position, md, bear_market, current_date, cash, options) ==
    IF is_first_trading_day(current_date) /\ cash <= initial_capital
    THEN LET put_trade == sell_cash_secured_put(symbol, md, bear_market, options)
         IN  IF put_trade # <<>>
             THEN Outcome(AttachOption(position, "PUT_SOLD", put_trade[1]),
                          cash + put_trade[1].premium,
                          put_trade)
             ELSE Outcome(position, cash, <<>>)
    ELSE Outcome(position, cash, <<>>)

\* lines 60-67
ProcessCash(symbol, position, md, bear_market, current_date, cash, options) ==
    IF is_first_trading_day(current_date)
    THEN LET put_trade == sell_cash_secured_put(symbol, md, bear_market, options)
         IN  IF put_trade # <<>>
             THEN Outcome(AttachOption(position, "PUT_SOLD", put_trade[1]),
                          cash + put_trade[1].premium,
                          put_trade)
             ELSE Outcome(position, cash, <<>>)
    ELSE Outcome(position, cash, <<>>)

\* lines 69-99
ProcessPutSold(symbol, position, md, bear_market, cash, options, quote) ==
    IF position.current_option # NoOption
    THEN LET option          == position.current_option[1]
             current_premium == get_current_option_premium(option, quote)
             initial_premium == option.premium
         IN  IF ProfitTakeCondition(current_premium, initial_premium)
             THEN LET buyback_trade == buy_back_option(option, md.price, quote)
                  IN  Outcome(ClosePosition(position, "CASH"),
                              cash - buyback_trade.premium,
                              <<buyback_trade>>)
             ELSE IF RollCondition(option)
             THEN LET roll_trade == roll_option(option, md, bear_market, options)
                  IN  IF roll_trade # <<>>
                      THEN Outcome(ReplaceOption(position, roll_trade[1]),
                                   cash - quote + roll_trade[1].premium,
                                   roll_trade)
                      ELSE Outcome(position, cash, <<>>)
             ELSE IF PutExerciseCondition(md.price, option.strike)
             THEN Outcome(AssignPut(position, option),
                          cash,
                          <<exercise_option(option, md.price)>>)
             ELSE Outcome(position, cash, <<>>)
    ELSE Outcome(position, cash, <<>>)

\* lines 101-136
ProcessStockOwned(symbol, position, md, bear_market, cash, options, quote) ==
    IF position.current_option = NoOption
    THEN LET call_trade == sell_covered_call(symbol, position.average_cost, md, options)
         IN  IF call_trade # <<>>
             THEN Outcome(AttachOption(position, "CALL_SOLD", call_trade[1]),
                          cash + call_trade[1].premium,
                          call_trade)
             ELSE Outcome(position, cash, <<>>)
    ELSE LET option          == position.current_option[1]
             current_premium == get_current_option_premium(option, quote)
             initial_premium == option.premium
         IN  IF ProfitTakeCondition(current_premium, initial_premium)
             THEN LET buyback_trade == buy_back_option(option, md.price, quote)
                  IN  Outcome(ClosePosition(position, "STOCK_OWNED"),
                              cash - buyback_trade.premium,
                              <<buyback_trade>>)
             ELSE IF CallRollCondition(md.price, option.strike)
             THEN LET roll_trade == roll_option(option, md, bear_market, options)
                  IN  IF roll_trade # <<>>
                      THEN Outcome(ReplaceOption(position, roll_trade[1]),
                                   cash - quote + roll_trade[1].premium,
                                   roll_trade)
                      ELSE Outcome(position, cash, <<>>)
             ELSE IF CallExerciseCondition(md.price, option.strike)
             THEN Outcome(AssignCall(position),
                          cash,
                          <<exercise_call_option(option, md.price)>>)
             ELSE Outcome(position, cash, <<>>)

\* lines 138-140: pass
ProcessCallSold(symbol, position, cash) == Outcome(position, cash, <<>>)

process_stock_position(symbol, position, md, bear_market, current_date, cash, options, quote) ==
    IF position.state = "CASH"
    THEN ProcessCash(symbol, position, md, bear_market, current_date, cash, options)
    ELSE IF position.state = "PUT_SOLD"
    THEN ProcessPutSold(symbol, position, md, bear_market, cash, options, quote)
    ELSE IF position.state = "STOCK_OWNED"
    THEN ProcessStockOwned(symbol, position, md, bear_market, cash, options, quote)
    ELSE ProcessCallSold(symbol, position, cash)

(***************************************************************************)
(* The market of one simulated day, as the provider answers.               *)
(***************************************************************************)
\* the VIX at the threshold of the bear-market test, and above it
VixLevels   == {35, 40}
QQQAverages == {NoAverage, 305}

\* the market premium of an open contract; NoQuote where none is open
NoQuote == 0
Quotes  == {90, 250}

\* the prices of the four symbols on one day: all at the call strike (above
\* the put strike), all at the put strike, or one symbol lower than the others
PriceMaps ==
    { [s \in Symbols |-> 330], [s \in Symbols |-> 300],
      [s \in Symbols |-> IF s = "NVDA" THEN 290 ELSE 330],
      [s \in Symbols |-> IF s = "QQQ" THEN 300 ELSE 330] }

\* get_current_market_data lines 71-82: the MarketData stored for a symbol
\* whose fetch raised
FallbackMarketData ==
    [price |-> 100, vix |-> 20, ma200 |-> 90, fetched |-> FALSE,
     timestamp |-> now]

\* the symbols whose fetch can raise
FailingSymbols == {"NVDA"}

\* get_current_market_data, every fetch answered: one MarketData per
\* symbol, the VIX shared, the timestamp the datetime.now() of the fetch
FetchedSnapshots ==
    { [s \in Symbols |->
          [price |-> prices[s], vix |-> vix,
           ma200 |-> IF s = "QQQ" THEN avg ELSE NoAverage,
           fetched |-> TRUE, timestamp |-> now]] :
      prices \in PriceMaps, vix \in VixLevels, avg \in QQQAverages }

\* get_current_market_data with the fetch of one symbol raising on a calm
\* day: the except branch stores the fallback for it
FallbackSnapshots ==
    { [s \in Symbols |->
          IF s = f THEN FallbackMarketData
          ELSE [price |-> 330, vix |-> 20, ma200 |-> NoAverage,
                fetched |-> TRUE, timestamp |-> now]] : f \in FailingSymbols }

MarketSnapshots == FetchedSnapshots \cup FallbackSnapshots

(***************************************************************************)
(* State: the engine's portfolio, the locals of execute_strategy and of    *)
(* run_backtest, and the position of the run in its loops.                 *)
(***************************************************************************)
VARIABLES
    pc,               \* "loop", "process", "valuation", "record", "done"
    start_date,       \* run_backtest's start_date
    end_date,         \* run_backtest's end_date
    days_run,         \* dates of date_range already iterated
    current_date,     \* the loop variable of run_backtest
    market_data,      \* execute_strategy's market_data
    option_quote,     \* the day's market premium of each open contract
    bear_market,      \* execute_strategy's bear_market
    sym_idx,          \* position of the loop over portfolio.positions
    executed_trades,  \* execute_strategy's executed_trades
    cash,             \* portfolio.cash
    total_value,      \* portfolio.total_value
    positions,        \* portfolio.positions
    equity_curve,     \* results['equity_curve']
    trades_executed,  \* results['trades_executed']
    portfolio_snapshots  \* results['portfolio_snapshots']: references

\* State of the computations checked on their own: the call of
\* calculate_performance_metrics, two runs of the same sale, one day of
\* execute_strategy with the order of its loop given, and the loop of
\* run_backtest over the business days of one month.
VARIABLES
    metrics_input,    \* the arguments of calculate_performance_metrics
    metrics_result,   \* <<>> before the call, <<outcome>> after it
    pair_input,       \* the symbol and the provider's answer given to both runs
    pair_results,     \* per run: <<>> before the sale, <<result>> after it
    order_input,      \* the day's portfolio, market, answers and loop order
    order_state,      \* the portfolio and the symbols evaluated so far
    calendar_input,   \* the month the range covers, <<year, month>>
    calendar_state    \* the loop's date and the first trading days seen

engine_vars == <<pc, start_date, end_date, days_run, current_date, market_data,
                 option_quote, bear_market, sym_idx, executed_trades, cash,
                 total_value, positions, equity_curve, trades_executed,
                 portfolio_snapshots>>

metrics_vars == <<metrics_input, metrics_result>>

pair_vars == <<pair_input, pair_results>>

order_vars == <<order_input, order_state>>

calendar_vars == <<calendar_input, calendar_state>>

vars == <<engine_vars, metrics_vars, pair_vars, order_vars, calendar_vars>>

\* the two runs compared
Runs == {1, 2}

\* no call of calculate_performance_metrics is in progress
MetricsIdle ==
    /\ metrics_input = <<>>
    /\ metrics_result = <<>>

\* no pair of runs is compared
PairIdle ==
    /\ pair_input = <<>>
    /\ pair_results = [r \in Runs |-> <<>>]

\* no day is evaluated in a given order
OrderIdle ==
    /\ order_input = <<>>
    /\ order_state = <<>>

\* no month is walked through
CalendarIdle ==
    /\ calendar_input = <<>>
    /\ calendar_state = <<>>

NoDate == -1

\* the one Portfolio object of the engine, as the lists of the results
\* refer to it
EnginePortfolio == "engine.portfolio"

\* TradingEngine(initial_capital) and the results dict of run_backtest
Init ==
    /\ pc = "loop"
    /\ start_date \in StartDates
    /\ end_date \in EndDates(start_date)
    /\ days_run = 0
    /\ current_date = NoDate
    /\ market_data = <<>>
    /\ option_quote = [s \in Symbols |-> NoQuote]
    /\ bear_market = FALSE
    /\ sym_idx = 0
    /\ executed_trades = <<>>
    /\ cash = initial_capital
    /\ total_value = initial_capital
    /\ positions = InitialPositions
    /\ equity_curve = <<>>
    /\ trades_executed = <<>>
    /\ portfolio_snapshots = <<>>
    /\ MetricsIdle
    /\ PairIdle
    /\ OrderIdle
    /\ CalendarIdle

\* the next element of pd.date_range(start, end, freq='B')
NextInRange ==
    IF days_run = 0 THEN NextBusinessDay(start_date)
    ELSE NextBusinessDay(current_date + 1)

\* the quotes the market can show for the contracts that are open
QuoteMaps ==
    { [s \in Symbols |-> IF positions[s].current_option = NoOption
                         THEN NoQuote ELSE level] : level \in Quotes }

\* run_backtest line 269 and execute_strategy lines 34-40
NextDate ==
    /\ pc = "loop"
    /\ InDateRange(NextInRange, end_date)
    /\ \E md \in MarketSnapshots, q \in QuoteMaps :
         /\ market_data' = md
         /\ option_quote' = q
         /\ bear_market' = is_bear_market_conditions(md)
    /\ current_date' = NextInRange
    /\ executed_trades' = <<>>
    /\ sym_idx' = 1
    /\ pc' = "process"
    /\ UNCHANGED <<start_date, end_date, days_run, cash, total_value,
                   positions, equity_curve, trades_executed,
                   portfolio_snapshots>>
    /\ UNCHANGED <<metrics_vars, pair_vars, order_vars, calendar_vars>>

\* execute_strategy lines 43-47: one iteration of the loop over the positions
ProcessStockPosition ==
    /\ pc = "process"
    /\ LET symbol == STOCK_CONFIGS[sym_idx]
       IN  \E options \in OptionChains :
             LET out == process_stock_position(symbol, positions[symbol],
                            market_data[symbol], bear_market, current_date, cash,
                            options, option_quote[symbol])
             IN  /\ positions' = [positions EXCEPT ![symbol] = out.position]
                 /\ cash' = out.cash
                 /\ executed_trades' = executed_trades \o out.trades
    /\ IF sym_idx < Len(STOCK_CONFIGS)
       THEN sym_idx' = sym_idx + 1 /\ pc' = "process"
       ELSE sym_idx' = 0 /\ pc' = "valuation"
    /\ UNCHANGED <<start_date, end_date, days_run, current_date, market_data,
                   option_quote, bear_market, total_value, equity_curve,
                   trades_executed, portfolio_snapshots>>
    /\ UNCHANGED <<metrics_vars, pair_vars, order_vars, calendar_vars>>

RECURSIVE SumOver(_, _)
SumOver(f, S) ==
    IF S = {} THEN 0
    ELSE LET s == CHOOSE x \in S : TRUE IN f[s] + SumOver(f, S \ {s})

\* _update_portfolio_value: cash + stock value + option value
PortfolioValue(csh, pos, md) ==
    LET stock_value  == SumOver([s \in Symbols |-> pos[s].quantity * md[s].price], Symbols)
        option_value == SumOver([s \in Symbols |->
                                   IF pos[s].current_option # NoOption
                                   THEN pos[s].current_option[1].premium
                                   ELSE 0], Symbols)
    IN  csh + stock_value + option_value

\* execute_strategy lines 50-52: the valuation, after which the locals
\* market_data and bear_market are gone
UpdatePortfolioValue ==
    /\ pc = "valuation"
    /\ total_value' = PortfolioValue(cash, positions, market_data)
    /\ market_data' = <<>>
    /\ option_quote' = [s \in Symbols |-> NoQuote]
    /\ bear_market' = FALSE
    /\ pc' = "record"
    /\ UNCHANGED <<start_date, end_date, days_run, current_date, sym_idx,
                   executed_trades, cash, positions, equity_curve,
                   trades_executed, portfolio_snapshots>>
    /\ UNCHANGED <<metrics_vars, pair_vars, order_vars, calendar_vars>>

\* the day's trades in place of the ledger
ExtendLedgerReplaces(ledger, trades) == trades

\* results['trades_executed'].extend(trades)
ExtendLedger(ledger, trades) == ledger \o trades

\* run_backtest lines 273-276
RecordResults ==
    /\ pc = "record"
    /\ equity_curve' = Append(equity_curve, <<current_date, total_value>>)
    /\ portfolio_snapshots' = Append(portfolio_snapshots, EnginePortfolio)
    /\ trades_executed' = ExtendLedger(trades_executed, executed_trades)
    /\ days_run' = days_run + 1
    /\ pc' = "loop"
    /\ UNCHANGED <<start_date, end_date, current_date, market_data, option_quote,
                   bear_market, sym_idx, executed_trades, cash, total_value,
                   positions>>
    /\ UNCHANGED <<metrics_vars, pair_vars, order_vars, calendar_vars>>

\* run_backtest line 278: the date range is exhausted
Return ==
    /\ pc = "loop"
    /\ ~InDateRange(NextInRange, end_date)
    /\ pc' = "done"
    /\ UNCHANGED <<start_date, end_date, days_run, current_date, market_data,
                   option_quote, bear_market, sym_idx, executed_trades, cash,
                   total_value, positions, equity_curve, trades_executed,
                   portfolio_snapshots>>
    /\ UNCHANGED <<metrics_vars, pair_vars, order_vars, calendar_vars>>

Next ==
    \/ NextDate
    \/ ProcessStockPosition
    \/ UpdatePortfolioValue
    \/ RecordResults
    \/ Return

Spec == Init /\ [][Next]_vars

(***************************************************************************)
(* Vocabulary of the properties.                                           *)
(***************************************************************************)
\* the symbol the next step of the per-symbol loop evaluates
CurrentSymbol == STOCK_CONFIGS[sym_idx]

\* a step of the per-symbol loop is about to evaluate `s`
Evaluating(s) == pc = "process" /\ CurrentSymbol = s

\* the simulated day is one of the calendar's first trading days
OnCalendarDay == strftime(current_date) \in TRADING_CALENDAR

\* every trade executed so far, the current day's included
AllTrades ==
    IF pc \in {"process", "valuation", "record"}
    THEN trades_executed \o executed_trades
    ELSE trades_executed

CountTrades(trades, s, actions) ==
    Cardinality({i \in 1..Len(trades) :
                    trades[i].symbol = s /\ trades[i].action \in actions})

\* contracts of `s` opened and not yet bought back or assigned, by the ledger
\* (a roll closes one contract and opens one)
ContractsOutstanding(s) ==
    CountTrades(AllTrades, s, {"open"})
        - CountTrades(AllTrades, s, {"close", "exercise"})

\* the evaluation of `s` left its position, the cash and the trades alone
NothingDoneFor(s) ==
    /\ positions'[s] = positions[s]
    /\ cash' = cash
    /\ executed_trades' = executed_trades

\* the evaluation of `s` recorded exactly one trade, of the given action
RecordsOneTrade(s, action) ==
    /\ Len(executed_trades') = Len(executed_trades) + 1
    /\ SubSeq(executed_trades', 1, Len(executed_trades)) = executed_trades
    /\ executed_trades'[Len(executed_trades')].symbol = s
    /\ executed_trades'[Len(executed_trades')].action = action

(***************************************************************************)
(* C1: in every reachable state each position holds at most one open       *)
(* OptionContract, and it holds one exactly when the trades of its symbol  *)
(* have opened one more contract than they have closed or assigned.        *)
(***************************************************************************)
AtMostOneOpenContract ==
    \A s \in Symbols :
        /\ Len(positions[s].current_option) <= 1
        /\ ContractsOutstanding(s) = Len(positions[s].current_option)

\* a contract was opened, bought back, and the symbol holds none afterwards
AtMostOneOpenContractWitness ==
    \E s \in Symbols :
        /\ CountTrades(AllTrades, s, {"open"}) = 1
        /\ CountTrades(AllTrades, s, {"close"}) = 1
        /\ positions[s].current_option = NoOption

(***************************************************************************)
(* C2: evaluating a symbol in state CASH on a day that is not a first      *)
(* trading day executes no trade for it, leaves its position as it is      *)
(* (CASH, no option) and leaves the cash unchanged.                        *)
(***************************************************************************)
CashIdleOffCalendar ==
    [][\A s \in Symbols :
          (Evaluating(s) /\ positions[s].state = "CASH" /\ ~OnCalendarDay)
              => NothingDoneFor(s)]_vars

\* NVDA was evaluated in CASH on a day off the calendar and is still in CASH
\* with no trade made and the cash untouched
CashIdleOffCalendarWitness ==
    /\ pc = "process" /\ sym_idx = 2
    /\ ~OnCalendarDay
    /\ positions["NVDA"].state = "CASH"
    /\ positions["NVDA"].current_option = NoOption
    /\ executed_trades = <<>>
    /\ cash = initial_capital

(***************************************************************************)
(* C3: evaluating a PUT_SOLD position whose contract's market premium is   *)
(* at most (1 - profit_take_percent) of its opening premium, equality      *)
(* included, records a close trade, sets the state to CASH and clears the  *)
(* contract.                                                               *)
(***************************************************************************)
ProfitTakeClosesPut ==
    [][\A s \in Symbols :
          (/\ Evaluating(s)
           /\ positions[s].state = "PUT_SOLD"
           /\ positions[s].current_option # NoOption
           /\ 10 * option_quote[s] <= 3 * positions[s].current_option[1].premium)
              => /\ RecordsOneTrade(s, "close")
                 /\ positions'[s].state = "CASH"
                 /\ positions'[s].current_option = NoOption]_vars

\* a put opened for 300 was bought back at exactly 90 = 0.3 x 300
ProfitTakeClosesPutWitness ==
    \E i \in 1..Len(executed_trades) :
        /\ executed_trades[i].action = "close"
        /\ executed_trades[i].option_type = "PUT"
        /\ executed_trades[i].premium = 90
        /\ positions[executed_trades[i].symbol].state = "CASH"
        /\ \E j \in 1..Len(trades_executed) :
              /\ trades_executed[j].symbol = executed_trades[i].symbol
              /\ trades_executed[j].action = "open"
              /\ trades_executed[j].premium = 300

(***************************************************************************)
(* C4: evaluating a PUT_SOLD position for which neither the profit-take    *)
(* nor the roll condition holds, with the price at or below the strike,    *)
(* records an exercise trade, sets the state to STOCK_OWNED, the quantity  *)
(* to 100 and the cost basis to the strike, and clears the contract.       *)
(***************************************************************************)
PutAssignedAtOrBelowStrike ==
    [][\A s \in Symbols :
          (/\ Evaluating(s)
           /\ positions[s].state = "PUT_SOLD"
           /\ positions[s].current_option # NoOption
           /\ ~(10 * option_quote[s] <= 3 * positions[s].current_option[1].premium)
           /\ ~(positions[s].current_option[1].dte <= 10)
           /\ market_data[s].price <= positions[s].current_option[1].strike)
              => /\ RecordsOneTrade(s, "exercise")
                 /\ positions'[s].state = "STOCK_OWNED"
                 /\ positions'[s].quantity = 100
                 /\ positions'[s].average_cost = positions[s].current_option[1].strike
                 /\ positions'[s].current_option = NoOption]_vars

\* a put was assigned on a day the price stood exactly at its strike
PutAssignedAtOrBelowStrikeWitness ==
    /\ pc = "process" /\ sym_idx > 1
    /\ \E i \in 1..(sym_idx - 1) :
         LET s == STOCK_CONFIGS[i]
         IN  /\ positions[s].state = "STOCK_OWNED"
             /\ positions[s].quantity = 100
             /\ positions[s].average_cost = market_data[s].price
             /\ \E k \in 1..Len(executed_trades) :
                   /\ executed_trades[k].symbol = s
                   /\ executed_trades[k].action = "exercise"

(***************************************************************************)
(* C5: evaluating a CALL_SOLD position for which neither the call          *)
(* profit-take nor the call roll condition holds, with the price at or     *)
(* above the strike, exercises the call: the state becomes CASH, quantity  *)
(* and cost basis become zero and the contract is cleared.                 *)
(***************************************************************************)
CallAssignedAtOrAboveStrike ==
    [][\A s \in Symbols :
          (/\ Evaluating(s)
           /\ positions[s].state = "CALL_SOLD"
           /\ positions[s].current_option # NoOption
           /\ ~(10 * option_quote[s] <= 3 * positions[s].current_option[1].premium)
           /\ ~(10 * market_data[s].price > 11 * positions[s].current_option[1].strike)
           /\ market_data[s].price >= positions[s].current_option[1].strike)
              => /\ positions'[s].state = "CASH"
                 /\ positions'[s].quantity = 0
                 /\ positions'[s].average_cost = 0
                 /\ positions'[s].current_option = NoOption]_vars

(***************************************************************************)
(* C6: every short put is cash-secured: in every reachable state the cash  *)
(* is at least the sum, over the symbols in PUT_SOLD, of strike x 100.     *)
(***************************************************************************)
PutsAreCashSecured ==
    cash >= SumOver([s \in Symbols |->
                        IF positions[s].state = "PUT_SOLD"
                           /\ positions[s].current_option # NoOption
                        THEN positions[s].current_option[1].strike * 100
                        ELSE 0], Symbols)

(***************************************************************************)
(* C7: on a first trading day on which the bear-market predicate is true,  *)
(* evaluating NVDA or TSLA in state CASH sells no put: no trade, the       *)
(* position stays as it is and the cash is not credited.                   *)
(***************************************************************************)
BearMarketSkipsExcluded ==
    [][\A s \in {"NVDA", "TSLA"} :
          (/\ Evaluating(s)
           /\ positions[s].state = "CASH"
           /\ OnCalendarDay
           /\ bear_market)
              => NothingDoneFor(s)]_vars

\* VIX = 40 on a first trading day: NVDA and TSLA were evaluated and are in
\* CASH with no trade, while GOOGL, in between, sold a put
BearMarketSkipsExcludedWitness ==
    /\ pc = "process" /\ sym_idx = 4
    /\ OnCalendarDay
    /\ bear_market
    /\ market_data["NVDA"].vix = 40
    /\ positions["NVDA"].state = "CASH"
    /\ positions["TSLA"].state = "CASH"
    /\ positions["GOOGL"].state = "PUT_SOLD"
    /\ Len(executed_trades) = 1
    /\ trades_executed = <<>>

(***************************************************************************)
(* C8: on a first trading day QQQ and GOOGL, in CASH, select their put in  *)
(* the bear-market delta band (0.10-0.15) when the bear-market predicate   *)
(* is true and in their configured band when it is false.                  *)
(***************************************************************************)
BearMarketNarrowsBand ==
    [][\A s \in {"QQQ", "GOOGL"} :
          (/\ Evaluating(s)
           /\ positions[s].state = "CASH"
           /\ OnCalendarDay
           /\ positions'[s].state = "PUT_SOLD")
              => LET delta == positions'[s].current_option[1].delta
                     band  == IF bear_market THEN <<10, 15>> ELSE <<20, 25>>
                 IN  band[1] <= delta /\ delta <= band[2]]_vars

(***************************************************************************)
(* C9: the valuation step sets total_value to cash plus the sum of         *)
(* quantity x the day's price plus the sum of the day's market premium of  *)
(* every open contract (a contract sold that day is quoted at the premium  *)
(* it was sold for).                                                       *)
(***************************************************************************)
MarketPremium(s) ==
    IF positions[s].current_option = NoOption THEN 0
    ELSE IF option_quote[s] # NoQuote THEN option_quote[s]
    ELSE positions[s].current_option[1].premium

ValuationMarksToMarket ==
    [][pc = "valuation"
          => total_value' =
                cash
                + SumOver([s \in Symbols |->
                             positions[s].quantity * market_data[s].price], Symbols)
                + SumOver([s \in Symbols |-> MarketPremium(s)], Symbols)]_vars

(***************************************************************************)
(* C10: cash flows with every assignment: the step that assigns a put      *)
(* (PUT_SOLD to STOCK_OWNED) lowers the cash by strike x 100, and the step *)
(* that assigns a call (CALL_SOLD to CASH) raises it by strike x 100.      *)
(***************************************************************************)
AssignmentMovesCash ==
    [][\A s \in Symbols :
          /\ (/\ Evaluating(s)
              /\ positions[s].state = "PUT_SOLD"
              /\ positions'[s].state = "STOCK_OWNED")
                 => cash' = cash - positions[s].current_option[1].strike * 100
          /\ (/\ Evaluating(s)
              /\ positions[s].state = "CALL_SOLD"
              /\ positions'[s].state = "CASH")
                 => cash' = cash + positions[s].current_option[1].strike * 100]_vars

(***************************************************************************)
(* Vocabulary of the driver's properties.                                  *)
(***************************************************************************)
\* the business days of the range of the run
BusinessDays == {d \in start_date..end_date : d % 7 < 5}

\* the dates of the equity curve, in its order
CurveDates == [i \in 1..Len(equity_curve) |-> equity_curve[i][1]]

IsPrefix(s, t) == Len(s) <= Len(t) /\ SubSeq(t, 1, Len(s)) = s

\* the portfolio an entry of the snapshot log shows to its reader
PortfolioShown(ref) ==
    [cash |-> cash, total_value |-> total_value, positions |-> positions]

SnapshotsKeepTheirDay ==
    [][\A i \in 1..Len(portfolio_snapshots) :
          PortfolioShown(portfolio_snapshots[i])'
              = PortfolioShown(portfolio_snapshots[i])]_vars

(***************************************************************************)
(* C13: the ledger only grows at its end; the step that records a day      *)
(* appends that day's trades, in the order of their execution; the trades  *)
(* of a day start empty and grow, per evaluated symbol, by the trades of   *)
(* that symbol, one for every change of its position's state.              *)
(***************************************************************************)
LedgerIsAppendOnly ==
    [][/\ IsPrefix(trades_executed, trades_executed')
       /\ pc = "record"
             => trades_executed' = trades_executed \o executed_trades
       /\ pc # "record" => trades_executed' = trades_executed
       /\ pc = "loop" /\ pc' = "process" => executed_trades' = <<>>
       /\ pc = "process"
             => /\ IsPrefix(executed_trades, executed_trades')
                /\ \A i \in (Len(executed_trades) + 1)..Len(executed_trades') :
                      executed_trades'[i].symbol = CurrentSymbol
                /\ positions'[CurrentSymbol].state # positions[CurrentSymbol].state
                      => Len(executed_trades') = Len(executed_trades) + 1]_vars

LedgerIsAppendOnlyWitness ==
    /\ pc = "done"
    /\ \E i, j \in 1..Len(trades_executed) :
          /\ i < j
          /\ trades_executed[i].symbol = trades_executed[j].symbol
          /\ trades_executed[i].action = "open"
          /\ trades_executed[j].action # "open"
    /\ \E i, j \in 1..Len(trades_executed) :
          /\ i < j
          /\ trades_executed[i].symbol # trades_executed[j].symbol

(***************************************************************************)
(* C15: the evaluation of a symbol whose market snapshot could not be      *)
(* fetched that day leaves its position, the cash and the trades alone.    *)
(***************************************************************************)
FailedFetchSkipsSymbol ==
    [][\A s \in Symbols :
          (Evaluating(s) /\ ~market_data[s].fetched) => NothingDoneFor(s)]_vars

(***************************************************************************)
(* C16: a run whose start date is after its end date evaluates no day and  *)
(* never returns a result.                                                 *)
(***************************************************************************)
InvertedRangeRefused ==
    start_date > end_date => (days_run = 0 /\ pc # "done")

(***************************************************************************)
(* backtester.py: calculate_performance_metrics, applied to equity curves  *)
(* drawn from bounded sets.  A ratio is a pair <<numerator, denominator>>  *)
(* with a positive denominator; a float whose value is not needed is kept  *)
(* by its kind only.                                                       *)
(***************************************************************************)
\* points of an equity curve at most
MaxCurveLen == 3

\* the values of the points, in dollars
CurveValues == {50, 100, 200}

\* days between two consecutive points of a curve: the same day, or the next
DateSteps == {0, 1}

\* the initial_capital passed with the curve
MetricsCapitals == {100, 100000}

\* the curve of a run that gains, falls below its start and recovers
GainFallRecover ==
    << <<0, 100000>>, <<1, 110000>>, <<2, 99000>>, <<3, 105000>> >>

\* the equity curves passed: lists of (date, value)
EquityCurves ==
    UNION { { [i \in 1..n |-> <<(i - 1) * step, values[i]>>] :
                values \in [1..n -> CurveValues], step \in DateSteps } :
            n \in 0..MaxCurveLen }
      \cup {GainFallRecover}

\* the engine is not running
EngineIdle ==
    /\ pc = "idle"
    /\ start_date = NoDate
    /\ end_date = NoDate
    /\ days_run = 0
    /\ current_date = NoDate
    /\ market_data = <<>>
    /\ option_quote = [s \in Symbols |-> NoQuote]
    /\ bear_market = FALSE
    /\ sym_idx = 0
    /\ executed_trades = <<>>
    /\ cash = 0
    /\ total_value = 0
    /\ positions = InitialPositions
    /\ equity_curve = <<>>
    /\ trades_executed = <<>>
    /\ portfolio_snapshots = <<>>

RatioLess(a, b) == a[1] * b[2] < b[1] * a[2]

RatioEqual(a, b) == a[1] * b[2] = b[1] * a[2]

\* the floats told apart: 0, a finite float, nan, inf and -inf
FloatZero == [float |-> "0"]

FloatFinite == [float |-> "finite"]

FloatNaN == [float |-> "nan"]

FloatInf == [float |-> "inf"]

FloatNegInf == [float |-> "-inf"]

\* lines 12-13
CurveDatesOf(curve) == [i \in 1..Len(curve) |-> curve[i][1]]

CurveValuesOf(curve) == [i \in 1..Len(curve) |-> curve[i][2]]

\* line 17: pd.Series(values).pct_change().dropna()
pct_change(values) ==
    [i \in 1..(IF Len(values) = 0 THEN 0 ELSE Len(values) - 1) |->
        <<values[i + 1] - values[i], values[i]>>]

\* the return over the first point of the curve
TotalReturnOverFirstPoint(values, capital) ==
    <<values[Len(values)] - values[1], values[1]>>

\* line 20: (values[-1] / initial_capital) - 1
total_return(values, capital) == <<values[Len(values)] - capital, capital>>

\* line 23: (dates[-1] - dates[0]).days
days_in_period(dates) == dates[Len(dates)] - dates[1]

\* line 24: (1 + total_return) ** (365.25 / days_in_period) - 1, kept as its
\* base and the days of its exponent
annualized_return(values, capital, days) ==
    [base |-> <<values[Len(values)], capital>>, days |-> days]

\* an annualized return is 0 exactly when its base is 1
AnnualizedIsZero(annualized) == annualized.base[1] = annualized.base[2]

\* the highest value of the whole curve
GlobalPeak(values, t) ==
    CHOOSE v \in {values[i] : i \in 1..Len(values)} :
        \A i \in 1..Len(values) : values[i] <= v

\* line 27: np.maximum.accumulate(values)[t]
RunningPeak(values, t) ==
    CHOOSE v \in {values[i] : i \in 1..t} : \A i \in 1..t : values[i] <= v

\* the fall measured against the value itself
DrawdownOverValue(value, peak) == <<value - peak, value>>

\* line 28: (values - peak) / peak, at one point
Drawdown(value, peak) == <<value - peak, peak>>

\* lines 27-29: np.min(drawdown)
max_drawdown(values) ==
    LET drawdown == [t \in 1..Len(values) |->
                        Drawdown(values[t], RunningPeak(values, t))]
    IN  CHOOSE d \in {drawdown[t] : t \in 1..Len(values)} :
            \A t \in 1..Len(values) : ~RatioLess(drawdown[t], d)

\* returns.std() is 0: all the returns are equal
StdIsZero(returns) ==
    \A i, j \in 1..Len(returns) : RatioEqual(returns[i], returns[j])

\* line 32: np.sqrt(252) * returns.mean() / returns.std() if len(returns) > 1
\* else 0; the float division by a zero deviation gives nan or an infinity
sharpe_ratio(returns) ==
    IF Len(returns) > 1
    THEN IF StdIsZero(returns)
         THEN IF returns[1][1] = 0 THEN FloatNaN
              ELSE IF returns[1][1] > 0 THEN FloatInf ELSE FloatNegInf
         ELSE FloatFinite
    ELSE FloatZero

\* calculate_performance_metrics: the dict returned, or the exception raised
calculate_performance_metrics(curve, capital) ==
    LET dates   == CurveDatesOf(curve)
        values  == CurveValuesOf(curve)
        returns == pct_change(values)
    IN  IF Len(values) = 0 THEN [outcome |-> "IndexError"]
        ELSE IF days_in_period(dates) = 0 THEN [outcome |-> "ZeroDivisionError"]
        ELSE [outcome |-> "returned",
              total_return |-> total_return(values, capital),
              annualized_return |->
                  annualized_return(values, capital, days_in_period(dates)),
              max_drawdown |-> max_drawdown(values),
              sharpe_ratio |-> sharpe_ratio(returns),
              final_value |-> values[Len(values)]]

\* a caller holds an equity curve and an initial capital
MetricsInit ==
    /\ EngineIdle
    /\ PairIdle
    /\ OrderIdle
    /\ CalendarIdle
    /\ metrics_input \in [equity_curve : EquityCurves,
                          initial_capital : MetricsCapitals]
    /\ metrics_result = <<>>

\* the call of calculate_performance_metrics
CalculatePerformanceMetrics ==
    /\ metrics_result = <<>>
    /\ metrics_result' =
          << calculate_performance_metrics(metrics_input.equity_curve,
                                           metrics_input.initial_capital) >>
    /\ UNCHANGED <<engine_vars, pair_vars, order_vars, calendar_vars,
                   metrics_input>>

MetricsNext == CalculatePerformanceMetrics

MetricsSpec == MetricsInit /\ [][MetricsNext]_vars

(***************************************************************************)
(* Vocabulary of the metrics' properties.                                  *)
(***************************************************************************)
\* calculate_performance_metrics has been called, and its outcome
MetricsCalled == metrics_result # <<>>

MetricsOutcome == metrics_result[1]

MetricsValues == CurveValuesOf(metrics_input.equity_curve)

\* the curve passed has a point, and its first and last dates coincide
ElapsedDaysZero ==
    /\ Len(metrics_input.equity_curve) >= 1
    /\ metrics_input.equity_curve[1][1]
          = metrics_input.equity_curve[Len(metrics_input.equity_curve)][1]

\* the daily returns of the curve passed: value over previous value, less 1
DailyReturns ==
    [i \in 1..(Len(MetricsValues) - 1) |->
        <<MetricsValues[i + 1] - MetricsValues[i], MetricsValues[i]>>]

NonDecreasing(values) ==
    \A i, j \in 1..Len(values) : i <= j => values[i] <= values[j]

\* -1 <= ratio <= 0
WithinUnitLoss(ratio) == -ratio[2] <= ratio[1] /\ ratio[1] <= 0

(***************************************************************************)
(* C17: called with a curve of a single point, or one whose first and last *)
(* dates coincide, calculate_performance_metrics returns, with an          *)
(* annualized return of 0.                                                 *)
(***************************************************************************)
ElapsedZeroAnnualizesToZero ==
    (MetricsCalled /\ ElapsedDaysZero)
        => /\ MetricsOutcome.outcome = "returned"
           /\ AnnualizedIsZero(MetricsOutcome.annualized_return)

(***************************************************************************)
(* C18: the Sharpe ratio returned is exactly 0 whenever the curve gives    *)
(* fewer than two daily returns, or daily returns that are all equal       *)
(* (standard deviation 0).                                                 *)
(***************************************************************************)
SharpeZeroWithoutSpread ==
    (/\ MetricsCalled
     /\ MetricsOutcome.outcome = "returned"
     /\ \/ Len(DailyReturns) < 2
        \/ \A i, j \in 1..Len(DailyReturns) :
              DailyReturns[i][1] * DailyReturns[j][2]
                  = DailyReturns[j][1] * DailyReturns[i][2])
        => MetricsOutcome.sharpe_ratio = FloatZero

(***************************************************************************)
(* C19: the maximum drawdown of every curve of positive values lies        *)
(* between -1 and 0, both as computed from the curve and as returned.      *)
(***************************************************************************)
MaxDrawdownWithinUnitLoss ==
    /\ (/\ metrics_input # <<>>
        /\ Len(MetricsValues) >= 1
        /\ \A i \in 1..Len(MetricsValues) : MetricsValues[i] > 0)
           => WithinUnitLoss(max_drawdown(MetricsValues))
    /\ (MetricsCalled /\ MetricsOutcome.outcome = "returned")
           => WithinUnitLoss(MetricsOutcome.max_drawdown)

MaxDrawdownWithinUnitLossWitness ==
    /\ MetricsCalled
    /\ MetricsOutcome.outcome = "returned"
    /\ MetricsOutcome.max_drawdown[1] < 0
    /\ -MetricsOutcome.max_drawdown[2] < MetricsOutcome.max_drawdown[1]
    /\ Len(MetricsValues) = 3
    /\ MetricsValues[1] < MetricsValues[2]

(***************************************************************************)
(* C20: the maximum drawdown of every curve whose values never decrease    *)
(* is exactly 0, both as computed from the curve and as returned.          *)
(***************************************************************************)
NoDrawdownWithoutFall ==
    /\ (/\ metrics_input # <<>>
        /\ Len(MetricsValues) >= 1
        /\ NonDecreasing(MetricsValues))
           => max_drawdown(MetricsValues)[1] = 0
    /\ (/\ MetricsCalled
        /\ MetricsOutcome.outcome = "returned"
        /\ NonDecreasing(MetricsValues))
           => MetricsOutcome.max_drawdown[1] = 0

NoDrawdownWithoutFallWitness ==
    /\ MetricsCalled
    /\ MetricsOutcome.outcome = "returned"
    /\ Len(MetricsValues) = 3
    /\ MetricsValues[1] < MetricsValues[2]
    /\ MetricsValues[2] < MetricsValues[3]
    /\ MetricsOutcome.max_drawdown[1] = 0

(***************************************************************************)
(* Two runs of the same evaluation of a CASH position on a calendar day,   *)
(* given the same symbol, market snapshot and provider answer, with the    *)
(* trade identifier and the timestamp the source puts on the trade.        *)
(***************************************************************************)
\* str(uuid.uuid4()): the identifiers a call can draw
TradeIds == {"uuid-a", "uuid-b"}

\* datetime.now(): the instants of the day `now` a call can read
Instants == {<<now, 1>>, <<now, 2>>}

\* what both runs are given
PairInputs == [symbol : Symbols, market_data : FetchedSnapshots,
               options : OptionChains]

\* Trade(trade_id=str(uuid.uuid4()), ..., timestamp=datetime.now(), ...)
StampedTrade(trade, trade_id, timestamp) ==
    [trade_id |-> trade_id, timestamp |-> timestamp] @@ trade

\* _process_stock_position lines 60-67 in a run that draws `trade_id` and
\* reads the clock at `timestamp`: the trades returned, the contract
\* attached and the cash
SellPutInRun(input, trade_id, timestamp) ==
    LET sold == sell_cash_secured_put(input.symbol,
                    input.market_data[input.symbol],
                    is_bear_market_conditions(input.market_data),
                    input.options)
    IN  IF sold = <<>>
        THEN [trades |-> <<>>, current_option |-> NoOption,
              cash |-> initial_capital]
        ELSE [trades |-> << StampedTrade(sold[1], trade_id, timestamp) >>,
              current_option |-> << create_option_contract(sold[1]) >>,
              cash |-> initial_capital + sold[1].premium]

\* two runs are given the same input
PairInit ==
    /\ EngineIdle
    /\ MetricsIdle
    /\ OrderIdle
    /\ CalendarIdle
    /\ pair_input \in PairInputs
    /\ pair_results = [r \in Runs |-> <<>>]

\* run r evaluates the position
RunSellsPut(r) ==
    /\ pair_results[r] = <<>>
    /\ \E trade_id \in TradeIds, timestamp \in Instants :
          pair_results' =
              [pair_results EXCEPT ![r] =
                  << SellPutInRun(pair_input, trade_id, timestamp) >>]
    /\ UNCHANGED <<engine_vars, metrics_vars, order_vars, calendar_vars,
                   pair_input>>

PairNext == \E r \in Runs : RunSellsPut(r)

PairSpec == PairInit /\ [][PairNext]_vars

(***************************************************************************)
(* C14: two runs given the same input return the same trades (identifier   *)
(* and timestamp included), the same contract and the same cash.           *)
(***************************************************************************)
RunsAgree ==
    (\A r \in Runs : pair_results[r] # <<>>)
        => pair_results[1] = pair_results[2]

(***************************************************************************)
(* Ratios in lowest terms, for products that stay within the integers.     *)
(***************************************************************************)
RECURSIVE GCD(_, _)
GCD(a, b) == IF b = 0 THEN a ELSE GCD(b, a % b)

LowestTerms(ratio) ==
    LET g == GCD(Abs(ratio[1]), ratio[2])
    IN  <<ratio[1] \div g, ratio[2] \div g>>

(***************************************************************************)
(* C21: the total return returned is the last value over the initial      *)
(* capital, less 1: the initial capital times (1 + total_return) gives     *)
(* back the last value of the curve.  For the curve 100000, 110000,        *)
(* 99000, 105000 with capital 100000 it is 0.05, and the maximum drawdown  *)
(* is (99000 - 110000) / 110000.                                           *)
(***************************************************************************)
TotalReturnAgainstCapital ==
    (MetricsCalled /\ MetricsOutcome.outcome = "returned")
        => /\ LET r == LowestTerms(MetricsOutcome.total_return)
              IN  metrics_input.initial_capital * (r[1] + r[2])
                      = MetricsValues[Len(MetricsValues)] * r[2]
           /\ (/\ metrics_input.equity_curve = GainFallRecover
               /\ metrics_input.initial_capital = 100000)
                 => /\ LowestTerms(MetricsOutcome.total_return) = <<1, 20>>
                    /\ LowestTerms(MetricsOutcome.max_drawdown)
                          = LowestTerms(<<99000 - 110000, 110000>>)
                    /\ LowestTerms(MetricsOutcome.max_drawdown) = <<-1, 10>>

TotalReturnAgainstCapitalWitness ==
    /\ MetricsCalled
    /\ MetricsOutcome.outcome = "returned"
    /\ metrics_input.equity_curve = GainFallRecover
    /\ metrics_input.initial_capital = 100000
    /\ MetricsOutcome.final_value = 105000

(***************************************************************************)
(* C22: before the first day the cash and the total value are the initial  *)
(* capital and every configured symbol has one position, in CASH, with no  *)
(* shares, no cost basis and no option; the symbols that have a position   *)
(* are the configured ones in every state of the run.                      *)
(***************************************************************************)
PositionKeysFixed ==
    /\ DOMAIN positions = Symbols
    /\ \A s \in Symbols : positions[s].symbol = s
    /\ (pc = "loop" /\ days_run = 0)
          => /\ cash = initial_capital
             /\ total_value = initial_capital
             /\ \A s \in Symbols :
                   /\ positions[s].state = "CASH"
                   /\ positions[s].quantity = 0
                   /\ positions[s].average_cost = 0
                   /\ positions[s].current_option = NoOption

PositionKeysFixedWitness ==
    /\ pc = "done"
    /\ days_run >= 3
    /\ \E s, t \in Symbols :
          /\ positions[s].state = "STOCK_OWNED"
          /\ positions[t].state = "PUT_SOLD"
    /\ Cardinality(DOMAIN positions) = Len(STOCK_CONFIGS)

(***************************************************************************)
(* Vocabulary of the exit conditions.                                      *)
(***************************************************************************)
\* days from the simulated day being evaluated to the expiration
SimulatedDTE(option) == option.expiration - current_date

\* `s` is about to be evaluated with an open put
EvaluatingOpenPut(s) ==
    /\ Evaluating(s)
    /\ positions[s].state = "PUT_SOLD"
    /\ positions[s].current_option # NoOption

\* the day's premium of the open contract of `s` has fallen to the
\* profit-take level
ProfitTakeDue(s) ==
    10 * option_quote[s]
        <= positions[s].current_option[1].premium * (10 - profit_take_percent)

\* the open contract of `s` is within the roll threshold of its expiration
RollDue(s) ==
    SimulatedDTE(positions[s].current_option[1]) <= roll_dte_threshold

(***************************************************************************)
(* C23: of an open put, the evaluation tries profit-take, then roll, then  *)
(* assignment, and one at most takes effect: a put due for profit-take is  *)
(* closed, whatever the price; a put due for a roll and not for            *)
(* profit-take is not assigned, whatever the price; an evaluation records  *)
(* one trade at most.                                                      *)
(***************************************************************************)
ExitsInFixedOrder ==
    [][\A s \in Symbols :
          /\ (EvaluatingOpenPut(s) /\ ProfitTakeDue(s))
                => /\ positions'[s].state = "CASH"
                   /\ positions'[s].current_option = NoOption
                   /\ RecordsOneTrade(s, "close")
          /\ (EvaluatingOpenPut(s) /\ ~ProfitTakeDue(s) /\ RollDue(s))
                => positions'[s].state = "PUT_SOLD"
          /\ Evaluating(s)
                => Len(executed_trades') <= Len(executed_trades) + 1]_vars

(***************************************************************************)
(* C24: an open put within the roll threshold (10 days) of its expiration  *)
(* on the simulated day, and not due for profit-take, is rolled: one roll  *)
(* trade is recorded, the state stays PUT_SOLD and the position carries    *)
(* the contract of the roll.                                               *)
(***************************************************************************)
RollsAtLowDTE ==
    [][\A s \in Symbols :
          (EvaluatingOpenPut(s) /\ ~ProfitTakeDue(s) /\ RollDue(s))
             => /\ positions'[s].state = "PUT_SOLD"
                /\ RecordsOneTrade(s, "roll")
                /\ positions'[s].current_option # NoOption
                /\ positions'[s].current_option[1].expiration
                      = executed_trades'[Len(executed_trades')].expiration]_vars

(***************************************************************************)
(* Vocabulary of the sales.                                                *)
(***************************************************************************)
\* the trade the step has just recorded
LastTrade == executed_trades'[Len(executed_trades')]

\* the step changed no position but that of `s`
OnlyPositionChanged(s) ==
    \A t \in Symbols \ {s} : positions'[t] = positions[t]

(***************************************************************************)
(* C25: the evaluation of a STOCK_OWNED position without an option either  *)
(* sells a covered call, whose delta is inside the call band of the symbol *)
(* and whose strike is at least 1.10 times the price and 1.10 times the    *)
(* cost basis, crediting its premium to the cash, moving to CALL_SOLD and  *)
(* attaching the contract; or it leaves position, cash and trades alone.   *)
(***************************************************************************)
CoveredCallAboveCostAndPrice ==
    [][\A s \in Symbols :
          (/\ Evaluating(s)
           /\ positions[s].state = "STOCK_OWNED"
           /\ positions[s].current_option = NoOption)
             => \/ NothingDoneFor(s)
                \/ /\ RecordsOneTrade(s, "open")
                   /\ LastTrade.option_type = "CALL"
                   /\ call_delta_range(s)[1] <= LastTrade.delta
                   /\ LastTrade.delta <= call_delta_range(s)[2]
                   /\ 10 * LastTrade.strike >= 11 * market_data[s].price
                   /\ 10 * LastTrade.strike >= 11 * positions[s].average_cost
                   /\ cash' = cash + LastTrade.premium
                   /\ positions'[s].state = "CALL_SOLD"
                   /\ positions'[s].quantity = positions[s].quantity
                   /\ positions'[s].average_cost = positions[s].average_cost
                   /\ positions'[s].current_option # NoOption
                   /\ positions'[s].current_option[1].option_type = "CALL"
                   /\ positions'[s].current_option[1].strike = LastTrade.strike
                   /\ positions'[s].current_option[1].premium
                         = LastTrade.premium]_vars

CoveredCallAboveCostAndPriceWitness ==
    /\ pc = "process"
    /\ sym_idx > 1
    /\ positions[STOCK_CONFIGS[sym_idx - 1]].state = "CALL_SOLD"
    /\ executed_trades # <<>>
    /\ executed_trades[Len(executed_trades)].symbol = STOCK_CONFIGS[sym_idx - 1]
    /\ executed_trades[Len(executed_trades)].option_type = "CALL"
    /\ executed_trades[Len(executed_trades)].action = "open"

\* the provider's answer holds no put for `s` in its band, nor in the
\* bear-market band, within the DTE window
NoPutCandidate(s, options) ==
    \A band \in {put_delta_range(s), bear_market_put_delta} :
        find_optimal_option(options, "put", band, dte_range) = NoCandidate

(***************************************************************************)
(* C26: on a first trading day, whenever the provider's answer holds no    *)
(* candidate for a CASH symbol, its evaluation returns the position and    *)
(* the cash as they were and no trade; a step that records no trade for a  *)
(* CASH symbol leaves position and cash alone and goes on to the next      *)
(* symbol or to the valuation.                                             *)
(***************************************************************************)
NoCandidateIsNoOp ==
    [][\A s \in Symbols :
          (Evaluating(s) /\ positions[s].state = "CASH")
             => /\ OnCalendarDay
                   => \A options \in OptionChains :
                         NoPutCandidate(s, options)
                            => process_stock_position(s, positions[s],
                                   market_data[s], bear_market, current_date,
                                   cash, options, option_quote[s])
                                 = [position |-> positions[s], cash |-> cash,
                                    trades |-> <<>>]
                /\ executed_trades' = executed_trades
                      => /\ positions' = positions
                         /\ cash' = cash
                /\ \/ pc' = "process" /\ sym_idx' = sym_idx + 1
                   \/ pc' = "valuation"]_vars

NoCandidateIsNoOpWitness ==
    /\ pc = "valuation"
    /\ OnCalendarDay
    /\ ~bear_market
    /\ positions["NVDA"].state = "CASH"
    /\ \A i \in 1..Len(executed_trades) : executed_trades[i].symbol # "NVDA"
    /\ \E i \in 1..Len(executed_trades) : executed_trades[i].action = "open"

(***************************************************************************)
(* C27: outside a bear market, on a first trading day, a candidate found   *)
(* for a CASH symbol in its delta band and the DTE window is sold unless   *)
(* its IV rank is at or above the ceiling (0.8); a candidate whose record  *)
(* carries no IV rank is sold.                                             *)
(***************************************************************************)
PutSoldBelowIVCeiling ==
    \A s \in Symbols :
        (/\ Evaluating(s)
         /\ positions[s].state = "CASH"
         /\ OnCalendarDay
         /\ ~bear_market)
           => \A options \in OptionChains :
                 LET found == find_optimal_option(options, "put",
                                  put_delta_range(s), dte_range)
                     out   == process_stock_position(s, positions[s],
                                  market_data[s], bear_market, current_date,
                                  cash, options, option_quote[s])
                 IN  found # NoCandidate
                        => IF /\ found[1].iv_rank # NoField
                              /\ found[1].iv_rank >= iv_rank_threshold
                           THEN out.trades = <<>>
                           ELSE /\ Len(out.trades) = 1
                                /\ out.position.state = "PUT_SOLD"

(***************************************************************************)
(* C28: the step that sells a put for a CASH symbol raises the cash by the *)
(* premium of the trade, which is its bid times 100, moves the position to *)
(* PUT_SOLD and attaches a PUT contract with the symbol, strike,           *)
(* expiration and premium of the trade; no other position changes.         *)
(***************************************************************************)
PutSaleCreditsPremium ==
    [][\A s \in Symbols :
          (/\ Evaluating(s)
           /\ positions[s].state = "CASH"
           /\ executed_trades' # executed_trades)
             => /\ RecordsOneTrade(s, "open")
                /\ LastTrade.option_type = "PUT"
                /\ LastTrade.premium = LastTrade.price * 100
                /\ cash' = cash + LastTrade.premium
                /\ positions'[s].state = "PUT_SOLD"
                /\ positions'[s].quantity = positions[s].quantity
                /\ positions'[s].current_option # NoOption
                /\ positions'[s].current_option[1].option_type = "PUT"
                /\ positions'[s].current_option[1].symbol = s
                /\ positions'[s].current_option[1].strike = LastTrade.strike
                /\ positions'[s].current_option[1].expiration
                      = LastTrade.expiration
                /\ positions'[s].current_option[1].premium = LastTrade.premium
                /\ OnlyPositionChanged(s)]_vars

PutSaleCreditsPremiumWitness ==
    /\ pc = "process"
    /\ sym_idx > 1
    /\ positions[STOCK_CONFIGS[sym_idx - 1]].state = "PUT_SOLD"
    /\ executed_trades # <<>>
    /\ executed_trades[Len(executed_trades)].symbol = STOCK_CONFIGS[sym_idx - 1]
    /\ executed_trades[Len(executed_trades)].action = "open"
    /\ cash = initial_capital + 2 * executed_trades[Len(executed_trades)].premium

Orders ==
    {o \in [1..Len(STOCK_CONFIGS) -> Symbols] :
        \A i, j \in 1..Len(STOCK_CONFIGS) : o[i] = o[j] => i = j}

\* the calendar day 2024-02-01, the day after it, and the calendar day
\* 2024-03-01
PutSaleDay    == 31
AssignmentDay == 32
OrderDay      == 60

\* a calm snapshot of one symbol at the given price
CalmMarketData(price) ==
    [price |-> price, vix |-> 20, ma200 |-> NoAverage, fetched |-> TRUE,
     timestamp |-> now]

\* the provider's answer with puts and a call in the DTE window
ChainWithCall == <<Expiry(InWindow, <<PutLowDelta, PutMidDelta>>, <<CallRow>>)>>

\* what earlier days can have made of the position of a symbol: nothing, a
\* put sold on 2024-02-01, or that put assigned the day after
Histories == {"none", "put sold", "put assigned"}

\* the position of `symbol` and the cash after the history, from the cash
\* before it
PositionAfter(symbol, history, csh) ==
    LET sold     == process_stock_position(symbol, InitialPositions[symbol],
                        CalmMarketData(330), FALSE, PutSaleDay, csh,
                        ChainWithCall, NoQuote)
        assigned == process_stock_position(symbol, sold.position,
                        CalmMarketData(300), FALSE, AssignmentDay, sold.cash,
                        <<>>, 250)
    IN  CASE history = "none" ->
                [position |-> InitialPositions[symbol], cash |-> csh]
          [] history = "put sold" ->
                [position |-> sold.position, cash |-> sold.cash]
          [] history = "put assigned" ->
                [position |-> assigned.position, cash |-> assigned.cash]

\* the portfolios the histories of `symbol` make of the given portfolios
PortfoliosAfter(portfolios, symbol) ==
    UNION {{[positions |-> [portfolio.positions EXCEPT ![symbol] = after.position],
             cash |-> after.cash] :
               after \in {PositionAfter(symbol, history, portfolio.cash) :
                             history \in Histories}} :
           portfolio \in portfolios}

RECURSIVE DayStartsFrom(_, _)
\* the portfolios after the histories of the symbols from the i-th on
DayStartsFrom(i, portfolios) ==
    IF i > Len(STOCK_CONFIGS) THEN portfolios
    ELSE DayStartsFrom(i + 1, PortfoliosAfter(portfolios, STOCK_CONFIGS[i]))

\* the portfolios a day can start with
DayStarts ==
    DayStartsFrom(1, {[positions |-> InitialPositions, cash |-> initial_capital]})

\* the snapshots of the day: every price at the put strike on a calm day, and
\* one symbol below it on a bear-market day
OrderSnapshots ==
    {md \in FetchedSnapshots :
        /\ md["QQQ"].ma200 = NoAverage
        /\ \/ md["NVDA"].price = 300 /\ md["NVDA"].vix = 35
           \/ md["NVDA"].price = 290 /\ md["NVDA"].vix = 40}

\* the answers of the provider on the day
OrderChains == {ChainWithCall, <<Expiry(InWindow, <<PutLowDelta>>, <<>>)>>}

\* what the day is given
OrderInputs ==
    {[order |-> order, positions |-> start.positions, cash |-> start.cash,
      current_date |-> OrderDay, market_data |-> md,
      option_quote |-> [s \in Symbols |->
                           IF start.positions[s].current_option = NoOption
                           THEN NoQuote ELSE level],
      options |-> options] :
        order \in Orders, start \in DayStarts, md \in OrderSnapshots,
        level \in Quotes, options \in OrderChains}

\* execute_strategy lines 43-47, one iteration: the portfolio after the
\* evaluation of `symbol`
EvaluateSymbol(input, portfolio, symbol) ==
    LET out == process_stock_position(symbol, portfolio.positions[symbol],
                   input.market_data[symbol],
                   is_bear_market_conditions(input.market_data),
                   input.current_date, portfolio.cash, input.options,
                   input.option_quote[symbol])
    IN  [positions |-> [portfolio.positions EXCEPT ![symbol] = out.position],
         cash |-> out.cash]

RECURSIVE EvaluateFrom(_, _, _, _)
\* execute_strategy lines 43-47: the loop from the i-th symbol of `order` on
EvaluateFrom(input, order, i, portfolio) ==
    IF i > Len(STOCK_CONFIGS) THEN portfolio
    ELSE EvaluateFrom(input, order, i + 1,
                      EvaluateSymbol(input, portfolio, order[i]))

\* execute_strategy lines 43-50 with the loop in the given order: positions,
\* cash and total value at the end of the day
EndOfDay(input, order) ==
    LET portfolio == EvaluateFrom(input, order, 1,
                         [positions |-> input.positions, cash |-> input.cash])
    IN  [positions |-> portfolio.positions, cash |-> portfolio.cash,
         total_value |-> PortfolioValue(portfolio.cash, portfolio.positions,
                                        input.market_data)]

\* a day is about to be evaluated
OrderInit ==
    /\ EngineIdle
    /\ MetricsIdle
    /\ PairIdle
    /\ CalendarIdle
    /\ order_input \in OrderInputs
    /\ order_state = [positions |-> order_input.positions,
                      cash |-> order_input.cash,
                      evaluated |-> <<>>, total_value |-> <<>>]

\* execute_strategy lines 43-47: the next iteration of the loop
EvaluateNext ==
    /\ Len(order_state.evaluated) < Len(STOCK_CONFIGS)
    /\ LET symbol == order_input.order[Len(order_state.evaluated) + 1]
           after  == EvaluateSymbol(order_input, order_state, symbol)
       IN  order_state' =
              [order_state EXCEPT !.positions = after.positions,
                                  !.cash = after.cash,
                                  !.evaluated = Append(@, symbol)]
    /\ UNCHANGED <<engine_vars, metrics_vars, pair_vars, calendar_vars,
                   order_input>>

\* execute_strategy line 50: the valuation after the loop
ValueDay ==
    /\ Len(order_state.evaluated) = Len(STOCK_CONFIGS)
    /\ order_state.total_value = <<>>
    /\ order_state' =
          [order_state EXCEPT !.total_value =
              << PortfolioValue(order_state.cash, order_state.positions,
                                order_input.market_data) >>]
    /\ UNCHANGED <<engine_vars, metrics_vars, pair_vars, calendar_vars,
                   order_input>>

OrderNext ==
    \/ EvaluateNext
    \/ ValueDay

OrderSpec == OrderInit /\ [][OrderNext]_vars

(***************************************************************************)
(* Vocabulary of the order of the evaluations.                             *)
(***************************************************************************)
\* the day has been evaluated and valued
DayDone == order_state # <<>> /\ order_state.total_value # <<>>

\* the day as the loop leaves it in the order of STOCK_CONFIGS
InConfiguredOrder == EndOfDay(order_input, STOCK_CONFIGS)

(***************************************************************************)
(* C30: a day evaluated in any order of the symbols, the evaluations       *)
(* taking the cash one after the other, has evaluated every configured     *)
(* symbol exactly once and ends with the positions (their states and       *)
(* options), the cash and the total value it ends with in the order of     *)
(* STOCK_CONFIGS.                                                          *)
(***************************************************************************)
OrderOfSymbolsIrrelevant ==
    DayDone =>
       /\ \A s \in Symbols :
             Cardinality({i \in 1..Len(order_state.evaluated) :
                             order_state.evaluated[i] = s}) = 1
       /\ order_state.positions = InConfiguredOrder.positions
       /\ order_state.cash = InConfiguredOrder.cash
       /\ order_state.total_value = << InConfiguredOrder.total_value >>

OrderOfSymbolsIrrelevantWitness ==
    /\ DayDone
    /\ order_input.order[1] = STOCK_CONFIGS[Len(STOCK_CONFIGS)]
    /\ order_state.cash # order_input.cash
    /\ \E s, t \in Symbols :
          /\ order_input.positions[s].state = "CASH"
          /\ order_state.positions[s].state = "PUT_SOLD"
          /\ order_input.positions[t].state = "PUT_SOLD"
          /\ order_state.positions[t].state = "STOCK_OWNED"
    /\ \E s \in Symbols :
          /\ order_input.positions[s].state = "STOCK_OWNED"
          /\ order_state.positions[s].state = "CALL_SOLD"

(***************************************************************************)
(* C31: the snapshot every symbol is evaluated on is the snapshot of the   *)
(* simulated day being evaluated: its date is the loop's current_date, the *)
(* same for all symbols, neither a later day nor the day of the wall       *)
(* clock.                                                                  *)
(***************************************************************************)
SnapshotsOfTheSimulatedDay ==
    pc = "process"
       => \A s \in Symbols : market_data[s].timestamp = current_date

(***************************************************************************)
(* C32: in every state the trade list of the position of a symbol is, in   *)
(* order, the trades of the run so far that carry the symbol.              *)
(***************************************************************************)
PositionsKeepTheirTrades ==
    \A s \in Symbols :
       positions[s].open_trades = SelectSeq(AllTrades, LAMBDA t : t.symbol = s)

(***************************************************************************)
(* C33: in every state a position has an open option exactly when its      *)
(* state is PUT_SOLD or CALL_SOLD, a PUT in PUT_SOLD and a CALL in         *)
(* CALL_SOLD; it holds 100 shares in STOCK_OWNED and CALL_SOLD and none    *)
(* otherwise; and its cost basis is 0 whenever it holds no shares.         *)
(***************************************************************************)
StateMatchesHoldings ==
    \A s \in Symbols :
       LET position == positions[s]
       IN  /\ position.current_option # NoOption
                <=> position.state \in {"PUT_SOLD", "CALL_SOLD"}
           /\ (position.state = "PUT_SOLD" /\ position.current_option # NoOption)
                => position.current_option[1].option_type = "PUT"
           /\ (position.state = "CALL_SOLD" /\ position.current_option # NoOption)
                => position.current_option[1].option_type = "CALL"
           /\ position.quantity =
                 IF position.state \in {"STOCK_OWNED", "CALL_SOLD"} THEN 100 ELSE 0
           /\ position.quantity = 0 => position.average_cost = 0

StateMatchesHoldingsWitness ==
    /\ pc = "done"
    /\ \E s, t \in Symbols :
          /\ positions[s].state = "CALL_SOLD"
          /\ positions[s].quantity = 100
          /\ positions[t].state = "PUT_SOLD"
          /\ positions[t].quantity = 0

(***************************************************************************)
(* C34: once a symbol has been evaluated on a simulated day, an option     *)
(* still open on its position expires on that day or later.                *)
(***************************************************************************)
NoContractPastExpiration ==
    order_state # <<>>
       => \A i \in 1..Len(order_state.evaluated) :
             LET position == order_state.positions[order_state.evaluated[i]]
             IN  position.current_option # NoOption
                    => position.current_option[1].expiration
                          >= order_input.current_date

(***************************************************************************)
(* Vocabulary of the cycle of a position.                                  *)
(***************************************************************************)
\* what a day can give the evaluation of `s`: the snapshot of the symbol,
\* the bear-market flag, a first trading day or another day, the provider's
\* answer and the quote of the open contract
EvaluationInputs(s) ==
    [md : {snapshot[s] : snapshot \in MarketSnapshots},
     bear_market : BOOLEAN,
     current_date : {PutSaleDay, AssignmentDay},
     options : OptionChains,
     quote : Quotes]

\* the positions one evaluation of `s` can make of the given ones
PositionsAfterOne(s, given) ==
    {process_stock_position(s, position, input.md, input.bear_market,
                            input.current_date, 0, input.options,
                            input.quote).position :
        position \in given, input \in EvaluationInputs(s)}

RECURSIVE PositionsAfterAny(_, _)
\* the positions any number of evaluations of `s` can make of the given ones
PositionsAfterAny(s, given) ==
    LET next == given \cup PositionsAfterOne(s, given)
    IN  IF next = given THEN given ELSE PositionsAfterAny(s, next)

\* some sequence of days brings the position of `s` back to CASH
CanReturnToCash(s, position) ==
    \/ position.state = "CASH"
    \/ \E later \in PositionsAfterAny(s, {position}) : later.state = "CASH"

(***************************************************************************)
(* C35: from the position of every symbol in every state, some sequence of *)
(* market snapshots, provider answers and quotes brings the position back  *)
(* to CASH.                                                                *)
(***************************************************************************)
NoStateAbsorbing ==
    \A s \in Symbols : CanReturnToCash(s, positions[s])

(***************************************************************************)
(* The loop of run_backtest over a range that is one calendar month: each  *)
(* business day of the month is evaluated, and the evaluation of a CASH    *)
(* position asks is_first_trading_day of it.                               *)
(***************************************************************************)
\* the years of the months a range can cover
Years == {2024, 2025}

Months == {<<year, month>> : year \in Years, month \in 1..12}

RECURSIVE DaysBefore(_, _)
\* the date of the first day of `month` of `year`
DaysBefore(year, month) ==
    IF year = 2024 /\ month = 1 THEN 0
    ELSE IF month = 1
    THEN DaysBefore(year - 1, 12) + MonthLengths(year - 1)[12]
    ELSE DaysBefore(year, month - 1) + MonthLengths(year)[month - 1]

FirstOfMonth(ym) == DaysBefore(ym[1], ym[2])

LastOfMonth(ym) == FirstOfMonth(ym) + MonthLengths(ym[1])[ym[2]] - 1

\* the next element of pd.date_range(first, last, freq='B')
NextInMonth ==
    IF calendar_state.current_date = NoDate
    THEN NextBusinessDay(FirstOfMonth(calendar_input))
    ELSE NextBusinessDay(calendar_state.current_date + 1)

\* a backtest over a month is about to run
CalendarInit ==
    /\ EngineIdle
    /\ MetricsIdle
    /\ PairIdle
    /\ OrderIdle
    /\ calendar_input \in Months
    /\ calendar_state = [current_date |-> NoDate, first_trading_days |-> 0,
                         returned |-> FALSE]

\* run_backtest line 269 and _process_stock_position line 62: the next
\* business day of the range is evaluated
EvaluateDayOfMonth ==
    /\ ~calendar_state.returned
    /\ InDateRange(NextInMonth, LastOfMonth(calendar_input))
    /\ calendar_state' =
          [calendar_state EXCEPT
              !.current_date = NextInMonth,
              !.first_trading_days =
                  IF is_first_trading_day(NextInMonth) THEN @ + 1 ELSE @]
    /\ UNCHANGED <<engine_vars, metrics_vars, pair_vars, order_vars,
                   calendar_input>>

\* run_backtest line 278: the range is exhausted
MonthReturns ==
    /\ ~calendar_state.returned
    /\ ~InDateRange(NextInMonth, LastOfMonth(calendar_input))
    /\ calendar_state' = [calendar_state EXCEPT !.returned = TRUE]
    /\ UNCHANGED <<engine_vars, metrics_vars, pair_vars, order_vars,
                   calendar_input>>

CalendarNext ==
    \/ EvaluateDayOfMonth
    \/ MonthReturns

CalendarSpec == CalendarInit /\ [][CalendarNext]_vars

(***************************************************************************)
(* C36: a run over a whole calendar month, of whatever year, has           *)
(* recognised exactly one of the business days it evaluated as the first   *)
(* trading day.                                                            *)
(***************************************************************************)
OneFirstTradingDayPerMonth ==
    (calendar_state # <<>> /\ calendar_state.returned)
        => calendar_state.first_trading_days = 1

(***************************************************************************)
(* Vocabulary of the day's change of value.                                *)
(***************************************************************************)
\* the total value the day before: the last point of the equity curve, the
\* initial capital before the first day
PreviousTotalValue ==
    IF equity_curve = <<>> THEN initial_capital
    ELSE equity_curve[Len(equity_curve)][2]

\* the only event of the day is the opening of one short option, and no
\* shares are held, so that no price moves the value
OnlyOneOptionOpened ==
    /\ pc = "record"
    /\ Len(executed_trades) = 1
    /\ executed_trades[1].action = "open"
    /\ \A s \in Symbols : positions[s].quantity = 0

(***************************************************************************)
(* C37: after the valuation of a day whose only event is the opening of    *)
(* one short option for a premium, with no shares held, the total value    *)
(* exceeds the total value of the day before by at most that premium.      *)
(***************************************************************************)
PremiumNotCountedTwice ==
    OnlyOneOptionOpened
       => total_value <= PreviousTotalValue + executed_trades[1].premium

====
